---- MODULE Spec2Model ----
(***************************************************************************)
(* Model of poster_core.py: one call of generate_poster_image, from the    *)
(* count check through decoding, routing, the dimension solver, scaling,   *)
(* vertical placement, the draw sequence and the final save.               *)
(*                                                                         *)
(* Arithmetic.  Python evaluates int(a / (w / h)), int(w * (avail/total))  *)
(* and int(space * v_ratio) in double precision.  For the image sizes of   *)
(* ImageSizes, every target width up to 2500, every simulated height up to *)
(* 3*10^7 and every empty_space in -4*10^6..1600 the double results equal  *)
(* the exact quotients truncated toward zero, which is what the operators  *)
(* below compute.  (For aspect ratios that are not binary fractions the    *)
(* double quotient can fall one below an exact integer quotient; such      *)
(* sizes are not in ImageSizes.)                                           *)
(***************************************************************************)
EXTENDS Integers, Sequences, FiniteSets

\* ------------------------------------------------------------ bounds
\* largest number of paths handed to one call
MaxCount == 7

\* (width, height) of the decoded images a path can yield: a 3:2 landscape,
\* a square, a one-pixel-high strip and a one-pixel-wide strip
ImageSizes ==
    { [width |-> 1500, height |-> 1000],
      [width |-> 1000, height |-> 1000],
      [width |-> 2048, height |-> 1],
      [width |-> 1,    height |-> 2048] }

\* ------------------------------------------------------------ configs
CANVAS_W == 1200
CANVAS_H == 1600

\* SHADOW_CONFIG["radius"] and SHADOW_CONFIG["offset"]
SHADOW_RADIUS == 15
SHADOW_OFFSET == 8

\* STYLES: v_ratio is kept in thousandths (0.618, 0.5)
STYLES ==
    [ poster |-> [margin |-> 50, v_ratio |-> 618, mode |-> "poster"],
      dense  |-> [margin |-> 25, v_ratio |-> 500, mode |-> "dense"] ]

Max(a, b) == IF a >= b THEN a ELSE b

\* Python's int() of the quotient a / b, b > 0: truncation toward zero
TruncDiv(a, b) == IF a >= 0 THEN a \div b ELSE -((-a) \div b)

\* ------------------------------------------------------------ helpers
\* a ceiling instead of the truncation
ScaledHeightCeil(new_w, w, h) == (new_w * h + w - 1) \div w

\* int(new_w / aspect) with aspect = w / h
ScaledHeight(new_w, w, h) == TruncDiv(new_w * h, w)

\* _resize_keeping_aspect(image, target_width=...): a target width of 0 is
\* falsy and target_height is None, so the image is returned unchanged
resize_keeping_aspect(image, target_width) ==
    IF target_width # 0
    THEN [width  |-> target_width,
          height |-> ScaledHeight(target_width, image.width, image.height)]
    ELSE image

\* Image.resize raises ValueError when a side of the requested size is < 1
ResizeRaises(image, target_width) ==
    LET t == resize_keeping_aspect(image, target_width)
    IN  target_width # 0 /\ (t.width < 1 \/ t.height < 1)

\* the grid loop of the solver from the (1-based) index i on: row heights at
\* width current_w plus one margin between consecutive rows
RECURSIVE SimGrid(_, _, _, _)
SimGrid(grid_imgs, i, current_w, margin) ==
    IF i > Len(grid_imgs) THEN 0
    ELSE LET row_h1 == ScaledHeight(current_w, grid_imgs[i].width, grid_imgs[i].height)
             row_h  == IF i + 1 <= Len(grid_imgs)
                       THEN Max(row_h1, ScaledHeight(current_w, grid_imgs[i + 1].width,
                                                     grid_imgs[i + 1].height))
                       ELSE row_h1
         IN  row_h + (IF i + 2 <= Len(grid_imgs) THEN margin ELSE 0)
                   + SimGrid(grid_imgs, i + 2, current_w, margin)

\* the solver's simulated stack height at width current_w
SimTotal(imgs, current_w, margin, layout_type) ==
    LET top == IF layout_type = "top_grid"
               THEN ScaledHeight((current_w * 2) + margin, imgs[1].width, imgs[1].height)
                    + margin
               ELSE 0
        start_idx == IF layout_type = "top_grid" THEN 1 ELSE 0
    IN  top + SimGrid(SubSeq(imgs, start_idx + 1, Len(imgs)), 1, current_w, margin)

\* _calculate_max_dimensions
calculate_max_dimensions(imgs, margin, layout_type) ==
    LET max_w       == (CANVAS_W - (margin * 3)) \div 2
        total_h     == SimTotal(imgs, max_w, margin, layout_type)
        available_h == CANVAS_H - (margin * 2)
    IN  IF total_h <= available_h
        THEN max_w
        ELSE TruncDiv(max_w * available_h, total_h)

\* ------------------------------------------------------------ layout
\* target width of image i: the hero gets main_w, every other tile grid_w
TargetWidth(i, g_w, m_w, layout_type) ==
    IF layout_type = "top_grid" /\ i = 1 THEN m_w ELSE g_w

\* step 2 of _layout_engine: the scaled tiles, in input order
Processed(imgs, g_w, m_w, layout_type) ==
    [i \in 1..Len(imgs) |->
        resize_keeping_aspect(imgs[i], TargetWidth(i, g_w, m_w, layout_type))]

\* the first image whose resize raises, or 0
FirstRaising(imgs, g_w, m_w, lt) ==
    LET bad == { i \in 1..Len(imgs) : ResizeRaises(imgs[i], TargetWidth(i, g_w, m_w, lt)) }
    IN  IF bad = {} THEN 0 ELSE CHOOSE i \in bad : \A j \in bad : i <= j

\* step 3 of _layout_engine: the heights of the grid rows of the scaled tiles
RECURSIVE RowHeights(_, _)
RowHeights(grid_items, i) ==
    IF i > Len(grid_items) THEN << >>
    ELSE LET h == IF i + 1 <= Len(grid_items)
                  THEN Max(grid_items[i].height, grid_items[i + 1].height)
                  ELSE grid_items[i].height
         IN  << h >> \o RowHeights(grid_items, i + 2)

RECURSIVE SumSeq(_)
SumSeq(s) == IF s = << >> THEN 0 ELSE Head(s) + SumSeq(Tail(s))

\* step 3 of _layout_engine: the actual stack height
TotalHeight(tiles, margin, layout_type) ==
    LET curr == IF layout_type = "top_grid" THEN 1 ELSE 0
        rows == RowHeights(SubSeq(tiles, curr + 1, Len(tiles)), 1)
        top  == IF layout_type = "top_grid" THEN tiles[1].height + margin ELSE 0
    IN  top + SumSeq(rows) + (IF Len(rows) > 1 THEN (Len(rows) - 1) * margin ELSE 0)

\* the top offset without the lower clamp
StartYUnclamped(total_h, st) == TruncDiv((CANVAS_H - total_h) * st.v_ratio, 1000)

\* step 4 of _layout_engine: start_y
StartY(total_h, st) ==
    LET y == TruncDiv((CANVAS_H - total_h) * st.v_ratio, 1000)
    IN  IF y < st.margin THEN st.margin ELSE y

\* ------------------------------------------------------------ routing
\* the parity test inverted
RouteLayoutSwapped(n) ==
    IF n = 5 THEN "top_grid"
    ELSE IF n % 2 = 0 THEN "top_grid" ELSE "sym_grid"

\* the parity test lost: every count gets the hero layout
RouteLayoutAlwaysTop(n) == "top_grid"

\* the style chosen by generate_poster_image for n images
RouteStyle(n) == IF n = 5 THEN "poster" ELSE "dense"

\* the layout type chosen by generate_poster_image for n images
RouteLayout(n) ==
    IF n = 5 THEN "top_grid"
    ELSE IF n % 2 = 0 THEN "sym_grid" ELSE "top_grid"

\* ------------------------------------------------------------ state
VARIABLES
    pc,          \* position in generate_poster_image
    count,       \* len(image_path_list)
    images,      \* the images decoded so far, in path order
    style,       \* name of the style handed to _layout_engine, or "none"
    layout_type, \* layout type handed to _layout_engine, or "none"
    grid_w,      \* _layout_engine: grid tile width
    main_w,      \* _layout_engine: hero tile width
    processed,   \* _layout_engine: the scaled tiles
    row_heights, \* _layout_engine: heights of the grid rows
    total_h,     \* _layout_engine: actual stack height
    start_y,     \* _layout_engine: top offset of the stack
    draw_y,      \* _layout_engine: y of the next row
    next_tile,   \* index in processed of the next tile to paste
    row_count,   \* _layout_engine: index of the current grid row
    ops,         \* the alpha_composite calls made on the canvas, in order
    writes,      \* number of canvas.save calls started
    dest,        \* the file at output_path: "absent", "partial" or "complete"
    result,      \* "none" while running, then "True" or "False"
    raised,      \* TRUE iff an exception left generate_poster_image
    err          \* what failed: "none", "count", "decode", "compose", "save"

vars == << pc, count, images, style, layout_type, grid_w, main_w, processed,
           row_heights, total_h, start_y, draw_y, next_tile, row_count, ops,
           writes, dest, result, raised, err >>

layout_vars == << grid_w, main_w, processed, row_heights, total_h, start_y,
                  draw_y, next_tile, row_count >>

Init ==
    /\ pc = "start"
    /\ count \in 0..MaxCount
    /\ images = << >>
    /\ style = "none"
    /\ layout_type = "none"
    /\ grid_w = 0
    /\ main_w = 0
    /\ processed = << >>
    /\ row_heights = << >>
    /\ total_h = 0
    /\ start_y = 0
    /\ draw_y = 0
    /\ next_tile = 0
    /\ row_count = 0
    /\ ops = << >>
    /\ writes = 0
    /\ dest = "absent"
    /\ result = "none"
    /\ raised = FALSE
    /\ err = "none"

\* ------------------------------------------------------------ exceptions
\* the handler lets the exception through
ExceptReraise == [pc |-> "done", result |-> "none", raised |-> TRUE]

\* the save in a finally clause: it runs after the handler too
ExceptThenSave == [pc |-> "save", result |-> "none", raised |-> FALSE]

\* except Exception: print and return False
Except == [pc |-> "done", result |-> "False", raised |-> FALSE]

\* an exception of kind e raised inside the try block
Raise(e) ==
    /\ pc' = Except.pc
    /\ result' = Except.result
    /\ raised' = Except.raised
    /\ err' = e

\* ------------------------------------------------------------ actions
\* count < 5: print and return False, outside the try block
TooFew ==
    /\ pc = "start"
    /\ count < 5
    /\ pc' = "done"
    /\ result' = "False"
    /\ err' = "count"
    /\ UNCHANGED << count, images, style, layout_type, layout_vars, ops,
                    writes, dest, raised >>

\* count >= 5: enter the try block
Enter ==
    /\ pc = "start"
    /\ count >= 5
    /\ pc' = "load"
    /\ UNCHANGED << count, images, style, layout_type, layout_vars, ops,
                    writes, dest, result, raised, err >>

\* Image.open(p).convert("RGBA") succeeds for the next path
Decode ==
    /\ pc = "load"
    /\ Len(images) < count
    /\ \E s \in ImageSizes : images' = Append(images, s)
    /\ UNCHANGED << pc, count, style, layout_type, layout_vars, ops,
                    writes, dest, result, raised, err >>

\* Image.open(p).convert("RGBA") raises for the next path
DecodeFail ==
    /\ pc = "load"
    /\ Len(images) < count
    /\ Raise("decode")
    /\ UNCHANGED << count, images, style, layout_type, layout_vars, ops,
                    writes, dest >>

\* all images decoded: the canvas is created and the call is routed
Route ==
    /\ pc = "load"
    /\ Len(images) = count
    /\ style' = RouteStyle(count)
    /\ layout_type' = RouteLayout(count)
    /\ pc' = "layout"
    /\ UNCHANGED << count, images, layout_vars, ops, writes, dest, result,
                    raised, err >>

\* _layout_engine steps 1 to 4: solver, scaling, actual heights, start_y
Measure ==
    /\ pc = "layout"
    /\ LET st     == STYLES[style]
           margin == st.margin
           g_w    == calculate_max_dimensions(images, margin, layout_type)
           m_w    == (g_w * 2) + margin
           tiles  == Processed(images, g_w, m_w, layout_type)
           curr   == IF layout_type = "top_grid" THEN 1 ELSE 0
           t_h    == TotalHeight(tiles, margin, layout_type)
       IN  /\ FirstRaising(images, g_w, m_w, layout_type) = 0
           /\ grid_w' = g_w
           /\ main_w' = m_w
           /\ processed' = tiles
           /\ row_heights' = RowHeights(SubSeq(tiles, curr + 1, Len(tiles)), 1)
           /\ total_h' = t_h
           /\ start_y' = StartY(t_h, st)
           /\ draw_y' = StartY(t_h, st)
           /\ next_tile' = 1
           /\ row_count' = 0
    /\ pc' = IF layout_type = "top_grid" THEN "draw_top" ELSE "draw_grid"
    /\ UNCHANGED << count, images, style, layout_type, ops, writes, dest,
                    result, raised, err >>

\* _layout_engine steps 1 and 2: the widths are computed, then a resize raises
\* (a side of the scaled size is 0); the tiles before it were scaled
MeasureFail ==
    /\ pc = "layout"
    /\ LET margin == STYLES[style].margin
           g_w    == calculate_max_dimensions(images, margin, layout_type)
           m_w    == (g_w * 2) + margin
           k      == FirstRaising(images, g_w, m_w, layout_type)
       IN  /\ k # 0
           /\ grid_w' = g_w
           /\ main_w' = m_w
           /\ processed' = SubSeq(Processed(images, g_w, m_w, layout_type), 1, k - 1)
    /\ Raise("compose")
    /\ UNCHANGED << count, images, style, layout_type, row_heights, total_h,
                    start_y, draw_y, next_tile, row_count, ops, writes, dest >>

\* the two alpha_composite calls of _paste_with_shadow(canvas, img_obj, x, y)
ShadowOp(i, x, y) ==
    LET padding == SHADOW_RADIUS * 3
    IN  [kind |-> "shadow", idx |-> i,
         x |-> x - padding + SHADOW_OFFSET, y |-> y - padding + SHADOW_OFFSET,
         w |-> processed[i].width + padding * 2,
         h |-> processed[i].height + padding * 2]

ImageOp(i, x, y) ==
    [kind |-> "image", idx |-> i, x |-> x, y |-> y,
     w |-> processed[i].width, h |-> processed[i].height]

\* the two composites in the wrong order: the shadow lands on top of its tile
paste_image_first(i, x, y) == ops' = ops \o << ImageOp(i, x, y), ShadowOp(i, x, y) >>

paste_with_shadow(i, x, y) == ops' = ops \o << ShadowOp(i, x, y), ImageOp(i, x, y) >>

\* the hero tile is pasted, horizontally centred
PasteTop ==
    /\ pc = "draw_top"
    /\ paste_with_shadow(1, (CANVAS_W - processed[1].width) \div 2, draw_y)
    /\ draw_y' = draw_y + processed[1].height + STYLES[style].margin
    /\ next_tile' = 2
    /\ pc' = IF Len(processed) >= 2 THEN "draw_left" ELSE "save"
    /\ UNCHANGED << count, images, style, layout_type, grid_w, main_w,
                    processed, row_heights, total_h, start_y, row_count,
                    writes, dest, result, raised, err >>

\* x of the left and the right grid column
LeftX(g_w, margin) == (CANVAS_W \div 2) - g_w - (margin \div 2)

RightX(g_w, margin) == (CANVAS_W \div 2) + (margin \div 2)

\* the left tile of the current grid row is pasted
PasteLeft ==
    /\ pc \in {"draw_grid", "draw_left"}
    /\ next_tile <= Len(processed)
    /\ paste_with_shadow(next_tile, LeftX(grid_w, STYLES[style].margin), draw_y)
    /\ next_tile' = next_tile + 1
    /\ IF next_tile + 1 <= Len(processed)
       THEN /\ pc' = "draw_right"
            /\ UNCHANGED << draw_y, row_count >>
       ELSE /\ pc' = "save"
            /\ draw_y' = draw_y + row_heights[row_count + 1] + STYLES[style].margin
            /\ row_count' = row_count + 1
    /\ UNCHANGED << count, images, style, layout_type, grid_w, main_w,
                    processed, row_heights, total_h, start_y,
                    writes, dest, result, raised, err >>

\* the right tile of the current grid row is pasted and the row is closed
PasteRight ==
    /\ pc = "draw_right"
    /\ paste_with_shadow(next_tile, RightX(grid_w, STYLES[style].margin), draw_y)
    /\ next_tile' = next_tile + 1
    /\ draw_y' = draw_y + row_heights[row_count + 1] + STYLES[style].margin
    /\ row_count' = row_count + 1
    /\ pc' = IF next_tile + 1 <= Len(processed) THEN "draw_left" ELSE "save"
    /\ UNCHANGED << count, images, style, layout_type, grid_w, main_w,
                    processed, row_heights, total_h, start_y,
                    writes, dest, result, raised, err >>

\* canvas.save(output_path, "PNG") succeeds
Save ==
    /\ pc = "save"
    /\ writes' = writes + 1
    /\ dest' = "complete"
    /\ pc' = "done"
    /\ result' = "True"
    /\ UNCHANGED << count, images, style, layout_type, layout_vars, ops,
                    raised, err >>

\* canvas.save(output_path, "PNG") raises: the file may or may not exist
SaveFail ==
    /\ pc = "save"
    /\ writes' = writes + 1
    /\ dest' \in {"absent", "partial"}
    /\ Raise("save")
    /\ UNCHANGED << count, images, style, layout_type, layout_vars, ops >>

Next ==
    \/ TooFew
    \/ Enter
    \/ Decode
    \/ DecodeFail
    \/ Route
    \/ Measure
    \/ MeasureFail
    \/ PasteTop
    \/ PasteLeft
    \/ PasteRight
    \/ Save
    \/ SaveFail

Spec == Init /\ [][Next]_vars

\* ------------------------------------------------------------ vocabulary
\* the call was routed: a style and a layout type were handed to _layout_engine
Routed == layout_type # "none"

\* _layout_engine has computed its widths (steps 1 and 2 were attempted)
Sized == Routed /\ pc # "layout"

\* the draw sequence has run to its end
Composed == Routed /\ (pc = "save" \/ (pc = "done" /\ err \in {"none", "save"}))

\* the canvas pastes of tile images, in the order they were made
Placed == SelectSeq(ops, LAMBDA o : o.kind = "image")

\* the margin of the style in use
MarginNow == STYLES[style].margin

\* number of hero tiles of the layout in use
HeroCount == IF layout_type = "top_grid" THEN 1 ELSE 0

Abs(a) == IF a >= 0 THEN a ELSE -a

Min(a, b) == IF a <= b THEN a ELSE b

\* ------------------------------------------------------------ C1
\* C1: once a call is routed, its (style, layout type) pair is the one the
\* image count determines: 5 gives poster (margin 50, ratio 0.618) with
\* top_grid, an even count >= 6 gives dense (margin 25, ratio 0.5) with
\* sym_grid, an odd count >= 7 gives dense with top_grid; poster with sym_grid
\* never reaches the layout engine, and nothing is routed for fewer than 5.
RoutingRule ==
    /\ (style = "none") <=> (layout_type = "none")
    /\ Routed =>
        /\ count >= 5
        /\ style \in {"poster", "dense"}
        /\ layout_type \in {"top_grid", "sym_grid"}
        /\ (count = 5) =>
              /\ style = "poster" /\ layout_type = "top_grid"
              /\ STYLES[style].margin = 50 /\ STYLES[style].v_ratio = 618
        /\ (count >= 6 /\ count % 2 = 0) =>
              /\ style = "dense" /\ layout_type = "sym_grid"
              /\ STYLES[style].margin = 25 /\ STYLES[style].v_ratio = 500
        /\ (count >= 7 /\ count % 2 = 1) =>
              /\ style = "dense" /\ layout_type = "top_grid"
              /\ STYLES[style].margin = 25 /\ STYLES[style].v_ratio = 500
        /\ ~(style = "poster" /\ layout_type = "sym_grid")

\* a call with 7 images has been routed to dense / top_grid
RoutingWitness ==
    pc = "layout" /\ count = 7 /\ style = "dense" /\ layout_type = "top_grid"

\* ------------------------------------------------------------ C2
\* C2: no exception leaves generate; the call has ended exactly when it has a
\* boolean result; the result is False for fewer than 5 paths, for a decode
\* failure, for a failed composition and for a failed save; it is True only
\* when every image was decoded, every tile was pasted and the save succeeded.
OneBooleanResult ==
    /\ raised = FALSE
    /\ result \in {"none", "True", "False"}
    /\ (pc = "done") <=> (result \in {"True", "False"})
    /\ (pc = "done" /\ count < 5) => result = "False"
    /\ (err # "none") => (pc = "done" /\ result = "False")
    /\ (result = "True") =>
          /\ err = "none"
          /\ count >= 5
          /\ Len(images) = count
          /\ Len(Placed) = count
          /\ writes = 1
          /\ dest = "complete"

\* a call whose save failed has returned False
SaveFailedWitness ==
    pc = "done" /\ err = "save" /\ result = "False" /\ Len(Placed) = count

\* ------------------------------------------------------------ C3
\* C3: the save is started at most once, and only after all paths were decoded
\* and every tile was composited, shadow first; a call that fails on the count,
\* on a decode or during composition starts no save and leaves no file.
WriteOnlyAfterCompose ==
    /\ writes <= 1
    /\ (writes >= 1) =>
          /\ count >= 5
          /\ Len(images) = count
          /\ Len(ops) = 2 * count
          /\ \A i \in 1..count :
                /\ ops[2 * i - 1].kind = "shadow" /\ ops[2 * i - 1].idx = i
                /\ ops[2 * i].kind = "image" /\ ops[2 * i].idx = i
    /\ (dest # "absent") => (writes >= 1)
    /\ (pc = "done" /\ (count < 5 \/ err \in {"count", "decode", "compose"})) =>
          (writes = 0 /\ dest = "absent")

\* a composition failed after 5 or more images were decoded; nothing was written
ComposeFailedWitness ==
    /\ pc = "done" /\ err = "compose" /\ Len(images) = count
    /\ writes = 0 /\ dest = "absent"

\* ------------------------------------------------------------ C4
\* C4: the width returned by the dimension solver fits by the solver's own
\* simulation: the simulated stack height at grid_w is at most
\* CANVAS_H - 2 * margin, in the overflow branch too.
SolverWidthFits ==
    Sized => SimTotal(images, grid_w, MarginNow, layout_type) <= CANVAS_H - 2 * MarginNow

\* ------------------------------------------------------------ C5
\* the size _resize_keeping_aspect asks for, for image i
Requested(i) ==
    resize_keeping_aspect(images[i], TargetWidth(i, grid_w, main_w, layout_type))

TilesInsideCanvas ==
    \A k \in 1..Len(ops) :
        (ops[k].kind = "image") =>
            /\ 0 <= ops[k].x
            /\ ops[k].x + ops[k].w <= CANVAS_W
            /\ 0 <= ops[k].y
            /\ ops[k].y + ops[k].h <= CANVAS_H

\* ------------------------------------------------------------ C7
\* the pastes at height y
TilesAt(y) == { k \in 1..Len(Placed) : Placed[k].y = y }

\* C7: a finished composition holds exactly count tiles, tile i made from
\* image i and pasted i-th; top_grid has one hero (the first image, alone in
\* its row) above (count - 1) / 2 grid rows, sym_grid has no hero and
\* count / 2 grid rows; every grid row holds exactly two tiles, a left and a
\* right one, so no row is left with a single tile.
TilesPerImage ==
    Composed =>
        LET n    == Len(Placed)
            hero == HeroCount
        IN  /\ n = count
            /\ Len(processed) = count
            /\ \A i \in 1..n :
                  /\ Placed[i].idx = i
                  /\ Placed[i].w = processed[i].width
                  /\ Placed[i].h = processed[i].height
                  /\ processed[i] = Requested(i)
            /\ (count - hero) % 2 = 0
            /\ Len(row_heights) = (count - hero) \div 2
            /\ row_count = Len(row_heights)
            /\ Cardinality({ Placed[i].y : i \in (hero + 1)..n }) = (count - hero) \div 2
            /\ (hero = 1) => (TilesAt(Placed[1].y) = {1} /\ Placed[1].y = start_y)
            /\ \A i \in (hero + 1)..n :
                  /\ Cardinality(TilesAt(Placed[i].y)) = 2
                  /\ ((i - hero) % 2 = 1) =>
                        /\ Placed[i + 1].y = Placed[i].y
                        /\ Placed[i].x < Placed[i + 1].x

\* 7 images were composed as a hero and three rows of two
SevenTilesWitness ==
    /\ Composed /\ count = 7 /\ layout_type = "top_grid"
    /\ Len(Placed) = 7 /\ Len(row_heights) = 3

\* ------------------------------------------------------------ C8
\* C8: under top_grid the hero is 2 * grid_w + margin wide, its left edge is
\* the left edge of the left grid column and its right edge is the right edge
\* of the right grid column.
HeroSpansColumns ==
    (Composed /\ layout_type = "top_grid") =>
        LET hero == Placed[1]
        IN  /\ hero.w = 2 * grid_w + MarginNow
            /\ hero.x = (CANVAS_W - hero.w) \div 2
            /\ hero.x = LeftX(grid_w, MarginNow)
            /\ hero.x + hero.w = RightX(grid_w, MarginNow) + grid_w
            /\ \A i \in 2..Len(Placed) :
                  Placed[i].x = (IF i % 2 = 0 THEN LeftX(grid_w, MarginNow)
                                             ELSE RightX(grid_w, MarginNow))

\* ------------------------------------------------------------ C9
\* C9: the two tiles of a grid row are both grid_w wide, the left one starts
\* at 600 - grid_w - margin/2, the right one at 600 + margin/2, the gap
\* between them is exactly one margin and they are mirrored around x = 600.
RowMirroredOneMargin ==
    Composed =>
        \A i \in (HeroCount + 1)..Len(Placed) :
            ((i - HeroCount) % 2 = 1 /\ i + 1 <= Len(Placed)) =>
                LET l == Placed[i]
                    r == Placed[i + 1]
                    w == grid_w
                    c == CANVAS_W \div 2
                IN  /\ l.w = w /\ r.w = w
                    /\ 2 * l.x = 2 * c - 2 * w - MarginNow
                    /\ 2 * r.x = 2 * c + MarginNow
                    /\ r.x - (l.x + w) = MarginNow
                    /\ c - (l.x + w) = r.x - c

\* ------------------------------------------------------------ C10
\* the height of grid row k of the scaled tiles, the grid starting after tile s
RowHeightOf(tiles, s, k) ==
    LET a == tiles[s + 2 * k - 1].height
    IN  IF s + 2 * k <= Len(tiles) THEN Max(a, tiles[s + 2 * k].height) ELSE a

RECURSIVE RowsSum(_, _, _)
RowsSum(tiles, s, k) ==
    IF k = 0 THEN 0 ELSE RowHeightOf(tiles, s, k) + RowsSum(tiles, s, k - 1)

\* C10: once the tiles are scaled, total_h is the stack height of the scaled
\* tiles (hero height plus margin, each row the maximum of its members, one
\* margin between consecutive rows, none after the last), and
\* start_y = max(margin, int((CANVAS_H - total_h) * v_ratio)) >= margin, also
\* when total_h exceeds CANVAS_H.
StartYClamped ==
    (Sized /\ Len(processed) = count) =>
        LET s     == HeroCount
            rows  == (count - s + 1) \div 2
            stack == (IF s = 1 THEN processed[1].height + MarginNow ELSE 0)
                     + RowsSum(processed, s, rows) + (rows - 1) * MarginNow
            empty == CANVAS_H - total_h
            raw   == TruncDiv(empty * STYLES[style].v_ratio, 1000)
        IN  /\ total_h = stack
            /\ start_y = Max(MarginNow, raw)
            /\ start_y >= MarginNow
            /\ \A k \in 1..Len(Placed) : Placed[k].y >= start_y

\* a stack higher than the canvas was placed at the margin
NegativeSpaceWitness ==
    /\ Sized /\ Len(processed) = count
    /\ total_h > CANVAS_H
    /\ start_y = MarginNow
    /\ Len(Placed) >= 1

\* ------------------------------------------------------------ C11
\* the grid row (1, 2, ...) of the i-th paste, 0 for the hero
RowOf(i) == (i - HeroCount + 1) \div 2

\* C11: at every moment of a composition the alpha_composite calls made so far
\* come in pairs, a tile's shadow immediately before the tile's image, the
\* shadow at (x - 45 + 8, y - 45 + 8); tiles are pasted in input order, so the
\* hero (if any) precedes every grid tile and lies above them; tiles of one
\* row share y with the left tile pasted before the right one; y increases
\* strictly from row to row; and a row is begun only when the row before it
\* holds both of its tiles.
CompositeOrder ==
    /\ Len(ops) % 2 = 0
    /\ \A k \in 1..(Len(ops) \div 2) :
          LET sh == ops[2 * k - 1]
              im == ops[2 * k]
          IN  /\ sh.kind = "shadow" /\ im.kind = "image"
              /\ sh.idx = k /\ im.idx = k
              /\ sh.x = im.x - 45 + 8
              /\ sh.y = im.y - 45 + 8
              /\ sh.w = im.w + 90 /\ sh.h = im.h + 90
    /\ LET tiles == Placed
       IN  \A i \in 1..Len(tiles) : \A j \in (i + 1)..Len(tiles) :
              IF RowOf(i) = RowOf(j)
              THEN /\ j = i + 1
                   /\ tiles[i].y = tiles[j].y
                   /\ tiles[i].x < tiles[j].x
              ELSE /\ RowOf(i) < RowOf(j)
                   /\ tiles[i].y < tiles[j].y
                   /\ (RowOf(i) >= 1) =>
                         \E k \in 1..(j - 1) :
                             /\ k # i
                             /\ RowOf(k) = RowOf(i)
                             /\ tiles[k].y = tiles[i].y

\* a hero and its first grid row are on the canvas and the second row is begun
SecondRowBegunWitness ==
    /\ pc = "draw_right"
    /\ layout_type = "top_grid"
    /\ Len(ops) = 8
    /\ ops[1].kind = "shadow" /\ ops[2].kind = "image"
    /\ Placed[1].y < Placed[2].y
    /\ Placed[2].y = Placed[3].y
    /\ Placed[3].y < Placed[4].y

====
